---- MODULE Spec2Model ----
(***************************************************************************)
(* IS31FL3729 LED matrix driver (src/src/lib.rs) and its seven-segment     *)
(* front end (src/src/devices.rs), as a state machine over the I2C bus.    *)
(*                                                                         *)
(* The driver owns no state but its configuration (address, width, height, *)
(* calc_pixel); everything it does is a sequence of bus transactions and   *)
(* delays.  The model keeps the chip's register file, and for every driver *)
(* call the transactions it issued, in order, with the call's result.      *)
(***************************************************************************)
EXTENDS Integers, Sequences, FiniteSets, TLC

VARIABLES
    dev,    \* the IS31FL3729 struct: address, width, height (calc_pixel is fixed)
    reg0,   \* the chip's register file before the first call
    reg,    \* the chip's register file now
    hist    \* the calls made so far, oldest first

vars == <<dev, reg0, reg, hist>>

---------------------------------------------------------------------------
(* addresses (lib.rs, mod addresses) *)

PWM_BASE_REGISTER == 1
PWM_LEN == 143
SCALING_BASE_REGISTER == 144
SCALING_LEN == 16
CONFIG_REGISTER == 160
GCC_REGISTER == 161
OPEN_SHORT_BASE_REGISTER == 179
OPEN_SHORT_LEN == 18
RESET_REGISTER == 207
RESET == 174

Byte == 0..255

---------------------------------------------------------------------------
(* bounds of the model *)

\* coordinates given to a call range over 0..MaxCoord
MaxCoord == 17
\* register files before the first call: reg0[a] = (f * a) % 256, f in 0..MaxFill
MaxFill == 1
\* calls per behaviour in the specifications that chain calls
MaxCalls == 2
\* the transport fails the fault-th bus transaction of a call, fault in
\* 1..MaxFault, or none (0)
MaxFault == 24
\* set_percent is given groups 0..MaxGroup
MaxGroup == 4
\* and values -0.1, 0.0, 0.1, .. MaxTenths / 10, and NaN
MaxTenths == 1001

Coords == 0..MaxCoord
\* the faults that differ for an operation of at most n bus transactions: a
\* fault index past the last transaction is no fault
Faults(n) == 0..(IF n < MaxFault THEN n ELSE MaxFault)
ResetOutcomes == {"keep", "clear"}
Brightness == {0, 90, 255}

---------------------------------------------------------------------------
(* bit fields of a byte, as the code's & | << on u8 *)

Bit(v, i) == (v \div (2 ^ i)) % 2

\* a & b
BitAnd(a, b) ==
    LET f[i \in 0..8] == IF i = 8 THEN 0
                         ELSE Bit(a, i) * Bit(b, i) * (2 ^ i) + f[i + 1]
    IN  f[0]

\* a | b
BitOr(a, b) ==
    LET f[i \in 0..8] == IF i = 8 THEN 0
                         ELSE (IF Bit(a, i) + Bit(b, i) > 0 THEN 2 ^ i ELSE 0) + f[i + 1]
    IN  f[0]

\* (a as u8) << n, for n < 8
Shl(a, n) == (a * (2 ^ n)) % 256

---------------------------------------------------------------------------
(* The chip, as the driver's bus transactions see it: a register file with *)
(* an address pointer that advances by one per byte of a block transfer.   *)

\* The chip after the write transaction buf = <<register, b1, ..., bn>>.
\* rst says what the chip does with its registers when the reset code is
\* written to the reset register: the source leaves that to the chip, so
\* both "keep" (registers retained) and "clear" (all registers 0) occur.
DevWrite(r, buf, rst) ==
    IF Len(buf) < 2 THEN r
    ELSE IF buf[1] = RESET_REGISTER /\ buf[2] = RESET /\ rst = "clear"
         THEN [a \in Byte |-> 0]
    ELSE IF Len(buf) = 2 THEN [r EXCEPT ![buf[1]] = buf[2]]
    ELSE [a \in Byte |->
            IF a >= buf[1] /\ a - buf[1] + 2 <= Len(buf)
            THEN buf[a - buf[1] + 2]
            ELSE r[a]]

\* The n bytes a write-then-read transaction starting at register a returns.
DevRead(r, a, n) == [i \in 1..n |-> r[(a + i - 1) % 256]]

---------------------------------------------------------------------------
(* The bus during one call.  A context c carries the chip's registers, the *)
(* events of the call so far, the number of bus transactions issued, the   *)
(* index of the transaction the transport fails (0: none fails), the       *)
(* outcome ok of the last transaction and the bytes rd it read.            *)

Ctx(r, a, fault, rst) ==
    [reg |-> r, addr |-> a, log |-> <<>>, n |-> 0, fault |-> fault,
     rst |-> rst, ok |-> TRUE, rd |-> <<>>]

Event(kind, a, bytes, len, ok, data) ==
    [kind |-> kind, addr |-> a, bytes |-> bytes, len |-> len,
     ok |-> ok, data |-> data]

\* self.i2c.write(self.address, buf)
write(c, buf) ==
    LET k == c.n + 1
        ok == (k # c.fault)
    IN  [c EXCEPT !.n = k, !.ok = ok, !.rd = <<>>,
                  !.reg = IF ok THEN DevWrite(c.reg, buf, c.rst) ELSE c.reg,
                  !.log = Append(c.log, Event("write", c.addr, buf, 0, ok, <<>>))]

\* self.i2c.write(self.address, &[register, value])
write_u8(c, register, value) == write(c, <<register, value>>)

\* self.i2c.write_read(self.address, &[register], &mut buf) with buf of len bytes
write_read(c, register, len) ==
    LET k == c.n + 1
        ok == (k # c.fault)
        data == IF ok THEN DevRead(c.reg, register, len) ELSE <<>>
    IN  [c EXCEPT !.n = k, !.ok = ok, !.rd = data,
                  !.log = Append(c.log,
                              Event("write_read", c.addr, <<register>>, len, ok, data))]

\* read_u8: the byte read is c.rd[1] when c.ok
read_u8(c, register) == write_read(c, register, 1)

\* delay.delay_ms(ms)
delay_ms(c, ms) ==
    [c EXCEPT !.log = Append(c.log, Event("delay", 0, <<ms>>, 0, TRUE, <<>>))]

---------------------------------------------------------------------------
(* results: Result<_, Error<I2cError>> *)

Ok == [tag |-> "Ok", val |-> 0, buf |-> <<>>]
OkBuf(b) == [tag |-> "Ok", val |-> 0, buf |-> b]
I2cError == [tag |-> "I2cError", val |-> 0, buf |-> <<>>]
InvalidLocation(v) == [tag |-> "InvalidLocation", val |-> v, buf |-> <<>>]

\* what an operation returns: the bus context it leaves and its result
Ret(c, res) == [c |-> c, res |-> res]

---------------------------------------------------------------------------
(* the driver's configurations *)

\* SevenSegment::configure
SevenSegmentDev == [address |-> 52, width |-> 9, height |-> 8]
\* a full 16 x 9 matrix with the same calc_pixel
MatrixDev == [address |-> 52, width |-> 16, height |-> 9]

Devices == {SevenSegmentDev, MatrixDev}

\* calc_pixel: |x, y| x + (0x10 * y); every call site has x <= width and
\* y <= height, so the u8 arithmetic cannot overflow for the Devices above
calc_pixel(x, y) == x + (16 * y)

---------------------------------------------------------------------------
(* IS31FL3729::pixel *)

\* pixel with the register computed without the table's base
pixel_no_base(d, c, x, y, brightness) ==
    IF x > d.width THEN Ret(c, InvalidLocation(x))
    ELSE IF y > d.height THEN Ret(c, InvalidLocation(y))
    ELSE LET p == calc_pixel(x, y)
         IN  IF p >= PWM_LEN THEN Ret(c, InvalidLocation(p))
             ELSE LET c1 == write_u8(c, p, brightness)
                  IN  IF c1.ok THEN Ret(c1, Ok) ELSE Ret(c1, I2cError)

\* pixel with the offset checked only after the write
pixel_late_check(d, c, x, y, brightness) ==
    IF x > d.width THEN Ret(c, InvalidLocation(x))
    ELSE IF y > d.height THEN Ret(c, InvalidLocation(y))
    ELSE LET p == calc_pixel(x, y)
             c1 == write_u8(c, (PWM_BASE_REGISTER + p) % 256, brightness)
         IN  IF ~c1.ok THEN Ret(c1, I2cError)
             ELSE IF p >= PWM_LEN THEN Ret(c1, InvalidLocation(p))
             ELSE Ret(c1, Ok)

pixel(d, c, x, y, brightness) ==
    IF x > d.width THEN Ret(c, InvalidLocation(x))
    ELSE IF y > d.height THEN Ret(c, InvalidLocation(y))
    ELSE LET p == calc_pixel(x, y)
         IN  IF p >= PWM_LEN THEN Ret(c, InvalidLocation(p))
             ELSE LET c1 == write_u8(c, PWM_BASE_REGISTER + p, brightness)
                  IN  IF c1.ok THEN Ret(c1, Ok) ELSE Ret(c1, I2cError)

---------------------------------------------------------------------------
(* IS31FL3729::reset, shutdown, setup *)

\* reset sleeping its 10 ms even when the bus write failed
reset_delays_anyway(c) ==
    LET c1 == write_u8(c, RESET_REGISTER, RESET)
    IN  IF ~c1.ok THEN Ret(delay_ms(c1, 10), I2cError)
        ELSE Ret(delay_ms(c1, 10), Ok)

reset(c) ==
    LET c1 == write_u8(c, RESET_REGISTER, RESET)
    IN  IF ~c1.ok THEN Ret(c1, I2cError)
        ELSE Ret(delay_ms(c1, 10), Ok)

\* shutdown with the bit's polarity taken as "1 = shut down"
shutdown_polarity(c, yes) ==
    LET c1 == read_u8(c, CONFIG_REGISTER)
    IN  IF ~c1.ok THEN Ret(c1, I2cError)
        ELSE LET config_val == c1.rd[1]
                 c2 == write_u8(c1, CONFIG_REGISTER,
                                BitOr(BitAnd(config_val, 254), IF yes THEN 1 ELSE 0))
             IN  IF c2.ok THEN Ret(c2, Ok) ELSE Ret(c2, I2cError)

shutdown(c, yes) ==
    LET c1 == read_u8(c, CONFIG_REGISTER)
    IN  IF ~c1.ok THEN Ret(c1, I2cError)
        ELSE LET config_val == c1.rd[1]
                 c2 == write_u8(c1, CONFIG_REGISTER,
                                BitOr(BitAnd(config_val, 254), IF yes THEN 0 ELSE 1))
             IN  IF c2.ok THEN Ret(c2, Ok) ELSE Ret(c2, I2cError)

\* the buffer of setup's block write: buf = [0xff; SCALING_LEN + 1], buf[0] =
\* PWM_BASE_REGISTER
ScalingBuf == [i \in 1..(SCALING_LEN + 1) |-> IF i = 1 THEN PWM_BASE_REGISTER ELSE 255]

\* setup leaving shutdown before the current and the block are written
setup_early_wake(c) ==
    LET r1 == reset(c)
    IN  IF r1.res # Ok THEN r1
        ELSE LET r2 == shutdown(r1.c, TRUE)
             IN  IF r2.res # Ok THEN r2
                 ELSE LET c3 == delay_ms(r2.c, 10)
                          r4 == shutdown(c3, FALSE)
                      IN  IF r4.res # Ok THEN r4
                          ELSE LET c5 == write_u8(r4.c, GCC_REGISTER, 64)
                               IN  IF ~c5.ok THEN Ret(c5, I2cError)
                                   ELSE LET c6 == write(c5, ScalingBuf)
                                        IN  IF ~c6.ok THEN Ret(c6, I2cError)
                                            ELSE Ret(c6, Ok)

setup(c) ==
    LET r1 == reset(c)
    IN  IF r1.res # Ok THEN r1
        ELSE LET r2 == shutdown(r1.c, TRUE)
             IN  IF r2.res # Ok THEN r2
                 ELSE LET c3 == delay_ms(r2.c, 10)
                          c4 == write_u8(c3, GCC_REGISTER, 64)
                      IN  IF ~c4.ok THEN Ret(c4, I2cError)
                          ELSE LET c5 == write(c4, ScalingBuf)
                               IN  IF ~c5.ok THEN Ret(c5, I2cError)
                                   ELSE shutdown(c5, FALSE)

---------------------------------------------------------------------------
(* IS31FL3729::sw_enablement, check_opens, check_shorts *)

\* SwSetting as u8: Sw1Sw9 = 0b0000 .. NoScan = 0b1000
SwSetting == 0..8

\* OSDE as u8
EnableOpen == 1
EnableShort == 2

\* sw_enablement keeping bits 1-3 only
sw_enablement_drops_bit0(c, setting) ==
    LET c1 == read_u8(c, CONFIG_REGISTER)
    IN  IF ~c1.ok THEN Ret(c1, I2cError)
        ELSE LET config_register == c1.rd[1]
                 new_val == BitOr(BitAnd(config_register, 14), Shl(setting, 4))
                 c2 == write_u8(c1, CONFIG_REGISTER, new_val)
             IN  IF c2.ok THEN Ret(c2, Ok) ELSE Ret(c2, I2cError)

sw_enablement(c, setting) ==
    LET c1 == read_u8(c, CONFIG_REGISTER)
    IN  IF ~c1.ok THEN Ret(c1, I2cError)
        ELSE LET config_register == c1.rd[1]
                 new_val == BitOr(BitAnd(config_register, 15), Shl(setting, 4))
                 c2 == write_u8(c1, CONFIG_REGISTER, new_val)
             IN  IF c2.ok THEN Ret(c2, Ok) ELSE Ret(c2, I2cError)

\* check_open_short returning without writing the saved current back
check_open_short_gcc_left(c, open) ==
    LET c1 == read_u8(c, CONFIG_REGISTER)
    IN  IF ~c1.ok THEN Ret(c1, I2cError) ELSE
    LET old_config == c1.rd[1]
        c2 == read_u8(c1, GCC_REGISTER)
    IN  IF ~c2.ok THEN Ret(c2, I2cError) ELSE
    LET old_gcc == c2.rd[1]
        osde == IF open THEN EnableOpen ELSE EnableShort
        c3 == write_u8(c2, GCC_REGISTER, 1)
    IN  IF ~c3.ok THEN Ret(c3, I2cError) ELSE
    LET c4 == write_u8(c3, CONFIG_REGISTER,
                       BitOr(BitAnd(old_config, 249), Shl(osde, 1)))
    IN  IF ~c4.ok THEN Ret(c4, I2cError) ELSE
    LET c5 == write_read(c4, OPEN_SHORT_BASE_REGISTER, OPEN_SHORT_LEN)
    IN  IF ~c5.ok THEN Ret(c5, I2cError) ELSE
    LET buf == c5.rd
        c6 == write_u8(c5, CONFIG_REGISTER, BitAnd(old_config, 249))
    IN  IF ~c6.ok THEN Ret(c6, I2cError) ELSE Ret(c6, OkBuf(buf))

\* check_open_short reading the diagnostic table with the detect field at 00
check_open_short_detect_off(c, open) ==
    LET c1 == read_u8(c, CONFIG_REGISTER)
    IN  IF ~c1.ok THEN Ret(c1, I2cError) ELSE
    LET old_config == c1.rd[1]
        c2 == read_u8(c1, GCC_REGISTER)
    IN  IF ~c2.ok THEN Ret(c2, I2cError) ELSE
    LET old_gcc == c2.rd[1]
        c3 == write_u8(c2, GCC_REGISTER, 1)
    IN  IF ~c3.ok THEN Ret(c3, I2cError) ELSE
    LET c4 == write_u8(c3, CONFIG_REGISTER, BitAnd(old_config, 249))
    IN  IF ~c4.ok THEN Ret(c4, I2cError) ELSE
    LET c5 == write_read(c4, OPEN_SHORT_BASE_REGISTER, OPEN_SHORT_LEN)
    IN  IF ~c5.ok THEN Ret(c5, I2cError) ELSE
    LET buf == c5.rd
        c6 == write_u8(c5, CONFIG_REGISTER, BitAnd(old_config, 249))
    IN  IF ~c6.ok THEN Ret(c6, I2cError) ELSE
    LET c7 == write_u8(c6, GCC_REGISTER, old_gcc)
    IN  IF ~c7.ok THEN Ret(c7, I2cError) ELSE Ret(c7, OkBuf(buf))

check_open_short(c, open) ==
    LET c1 == read_u8(c, CONFIG_REGISTER)
    IN  IF ~c1.ok THEN Ret(c1, I2cError) ELSE
    LET old_config == c1.rd[1]
        c2 == read_u8(c1, GCC_REGISTER)
    IN  IF ~c2.ok THEN Ret(c2, I2cError) ELSE
    LET old_gcc == c2.rd[1]
        osde == IF open THEN EnableOpen ELSE EnableShort
        c3 == write_u8(c2, GCC_REGISTER, 1)
    IN  IF ~c3.ok THEN Ret(c3, I2cError) ELSE
    LET c4 == write_u8(c3, CONFIG_REGISTER,
                       BitOr(BitAnd(old_config, 249), Shl(osde, 1)))
    IN  IF ~c4.ok THEN Ret(c4, I2cError) ELSE
    LET c5 == write_read(c4, OPEN_SHORT_BASE_REGISTER, OPEN_SHORT_LEN)
    IN  IF ~c5.ok THEN Ret(c5, I2cError) ELSE
    LET buf == c5.rd
        c6 == write_u8(c5, CONFIG_REGISTER, BitAnd(old_config, 249))
    IN  IF ~c6.ok THEN Ret(c6, I2cError) ELSE
    LET c7 == write_u8(c6, GCC_REGISTER, old_gcc)
    IN  IF ~c7.ok THEN Ret(c7, I2cError) ELSE Ret(c7, OkBuf(buf))

check_opens(c) == check_open_short(c, TRUE)
check_shorts(c) == check_open_short(c, FALSE)

---------------------------------------------------------------------------
(* SevenSegment::set_digit *)

\* lookup: [[bool; 7]; 36], segments A, B, C, D, E, F, G
lookup ==
    <<
       <<TRUE, TRUE, TRUE, TRUE, TRUE, TRUE, FALSE>>,  \* 0
       <<FALSE, TRUE, TRUE, FALSE, FALSE, FALSE, FALSE>>,  \* 1
       <<TRUE, TRUE, FALSE, TRUE, TRUE, FALSE, TRUE>>,  \* 2
       <<TRUE, TRUE, TRUE, TRUE, FALSE, FALSE, TRUE>>,  \* 3
       <<FALSE, TRUE, TRUE, FALSE, FALSE, TRUE, TRUE>>,  \* 4
       <<TRUE, FALSE, TRUE, TRUE, FALSE, TRUE, TRUE>>,  \* 5
       <<TRUE, FALSE, TRUE, TRUE, TRUE, TRUE, TRUE>>,  \* 6
       <<TRUE, TRUE, TRUE, FALSE, FALSE, FALSE, FALSE>>,  \* 7
       <<TRUE, TRUE, TRUE, TRUE, TRUE, TRUE, TRUE>>,  \* 8
       <<TRUE, TRUE, TRUE, FALSE, FALSE, TRUE, TRUE>>,  \* 9
       <<TRUE, TRUE, TRUE, FALSE, TRUE, TRUE, TRUE>>,  \* A
       <<FALSE, FALSE, TRUE, TRUE, TRUE, TRUE, TRUE>>,  \* b
       <<TRUE, FALSE, FALSE, TRUE, TRUE, TRUE, FALSE>>,  \* C
       <<FALSE, TRUE, TRUE, TRUE, TRUE, FALSE, TRUE>>,  \* d
       <<TRUE, FALSE, FALSE, TRUE, TRUE, TRUE, TRUE>>,  \* E
       <<TRUE, FALSE, FALSE, FALSE, TRUE, TRUE, TRUE>>,  \* F
       <<TRUE, FALSE, TRUE, TRUE, TRUE, TRUE, FALSE>>,  \* G
       <<FALSE, TRUE, TRUE, FALSE, TRUE, TRUE, TRUE>>,  \* H
       <<FALSE, FALSE, TRUE, FALSE, FALSE, FALSE, FALSE>>,  \* i
       <<FALSE, TRUE, TRUE, TRUE, TRUE, FALSE, FALSE>>,  \* J
       <<FALSE, FALSE, FALSE, FALSE, FALSE, FALSE, TRUE>>,  \* K -- n/a
       <<FALSE, FALSE, FALSE, TRUE, TRUE, TRUE, FALSE>>,  \* L
       <<FALSE, FALSE, FALSE, FALSE, FALSE, FALSE, TRUE>>,  \* M -- n/a
       <<FALSE, FALSE, TRUE, FALSE, TRUE, FALSE, TRUE>>,  \* n
       <<FALSE, FALSE, TRUE, TRUE, TRUE, FALSE, TRUE>>,  \* o
       <<TRUE, TRUE, FALSE, FALSE, TRUE, TRUE, TRUE>>,  \* P
       <<FALSE, FALSE, FALSE, FALSE, FALSE, FALSE, TRUE>>,  \* q -- n/a
       <<FALSE, FALSE, FALSE, FALSE, TRUE, FALSE, TRUE>>,  \* r
       <<TRUE, FALSE, TRUE, TRUE, FALSE, TRUE, TRUE>>,  \* S (same as 5)
       <<FALSE, FALSE, FALSE, TRUE, TRUE, TRUE, TRUE>>,  \* t
       <<FALSE, FALSE, TRUE, TRUE, TRUE, FALSE, FALSE>>,  \* u
       <<FALSE, FALSE, FALSE, FALSE, FALSE, FALSE, TRUE>>,  \* v -- n/a
       <<FALSE, FALSE, FALSE, FALSE, FALSE, FALSE, TRUE>>,  \* w -- n/a
       <<FALSE, FALSE, FALSE, FALSE, FALSE, FALSE, TRUE>>,  \* x -- n/a
       <<FALSE, TRUE, TRUE, TRUE, FALSE, TRUE, TRUE>>,  \* Y
       <<TRUE, TRUE, FALSE, TRUE, TRUE, FALSE, TRUE>>   \* Z (same as 2)
    >>

\* the loop over the segments with the glyph read back to front
RECURSIVE set_digit_segs_reversed(_, _, _, _, _)
set_digit_segs_reversed(d, c, which, glyph, seg) ==
    IF seg = 7 THEN Ret(c, Ok)
    ELSE LET r == pixel(d, c, which, seg, IF glyph[7 - seg] THEN 255 ELSE 0)
         IN  IF r.res # Ok THEN r
             ELSE set_digit_segs_reversed(d, r.c, which, glyph, seg + 1)

\* for seg in 0..7 { self.device.pixel(which, seg, ..)?; }, from segment seg on
RECURSIVE set_digit_segs(_, _, _, _, _)
set_digit_segs(d, c, which, glyph, seg) ==
    IF seg = 7 THEN Ret(c, Ok)
    ELSE LET r == pixel(d, c, which, seg, IF glyph[seg + 1] THEN 255 ELSE 0)
         IN  IF r.res # Ok THEN r
             ELSE set_digit_segs(d, r.c, which, glyph, seg + 1)

\* set_digit with the value reduced to five bits instead of modulo 36
set_digit_mod32(d, c, which, val, point) ==
    LET r == set_digit_segs(d, c, which, lookup[(val % 32) + 1], 0)
    IN  IF r.res # Ok THEN r
        ELSE pixel(d, r.c, which, 7, IF point THEN 255 ELSE 0)

set_digit(d, c, which, val, point) ==
    LET r == set_digit_segs(d, c, which, lookup[(val % 36) + 1], 0)
    IN  IF r.res # Ok THEN r
        ELSE pixel(d, r.c, which, 7, IF point THEN 255 ELSE 0)

---------------------------------------------------------------------------
(* fill and set_scaling *)

\* buf = [brightness; PWM_LEN + 1]; buf[0] = PWM_BASE_REGISTER; self.write(&buf)?
fill(c, brightness) ==
    LET buf == [i \in 1..(PWM_LEN + 1) |->
                   IF i = 1 THEN PWM_BASE_REGISTER ELSE brightness]
        c1 == write(c, buf)
    IN  IF c1.ok THEN Ret(c1, Ok) ELSE Ret(c1, I2cError)

\* the call did not return: an arithmetic overflow panicked
Panic == [tag |-> "Panic", val |-> 0, buf |-> <<>>]

\* SCALING_BASE_REGISTER + cs is u8 arithmetic: past 255 it panics in a build
\* with overflow checks and wraps modulo 256 in a build without them
set_scaling(c, cs, scale, checks) ==
    LET sum == SCALING_BASE_REGISTER + cs
    IN  IF sum > 255 /\ checks THEN Ret(c, Panic)
        ELSE LET c1 == write_u8(c, sum % 256, scale)
             IN  IF c1.ok THEN Ret(c1, Ok) ELSE Ret(c1, I2cError)

---------------------------------------------------------------------------
(* f32, as far as set_percent uses it.  A value is NaN, or (-1)^neg * m * 2^e *)
(* with m = 0 or 2^23 <= m < 2^24: 24 significant bits, results rounded to   *)
(* nearest, ties to even.                                                    *)

NaN == [nan |-> TRUE, neg |-> FALSE, m |-> 0, e |-> 0]

\* the f32 nearest to (n / d) * 2^e, for n >= 0 and d > 0
RECURSIVE F32Norm(_, _, _)
F32Norm(n, d, e) ==
    IF n = 0 THEN [m |-> 0, e |-> 0]
    ELSE IF n < d * (2 ^ 23) THEN F32Norm(2 * n, d, e - 1)
    ELSE IF n >= d * (2 ^ 24) THEN F32Norm(n, 2 * d, e + 1)
    ELSE LET q == n \div d
             r == n % d
             up == 2 * r > d \/ (2 * r = d /\ q % 2 = 1)
             m == IF up THEN q + 1 ELSE q
         IN  IF m = 2 ^ 24 THEN [m |-> 2 ^ 23, e |-> e + 1] ELSE [m |-> m, e |-> e]

F32(neg, n, d, e) ==
    LET r == F32Norm(n, d, e)
    IN  [nan |-> FALSE, neg |-> neg, m |-> r.m, e |-> r.e]

\* the f32 a caller passes for the decimal t / 10 (t tenths)
F32Tenths(t) == IF t < 0 THEN F32(TRUE, -t, 10, 0) ELSE F32(FALSE, t, 10, 0)

\* 10_f32 * val
F32Mul10(val) == IF val.nan THEN NaN ELSE F32(val.neg, 10 * val.m, 1, val.e)

\* val / 10_f32
F32Div10(val) == IF val.nan THEN NaN ELSE F32(val.neg, val.m, 10, val.e)

\* the integer part of |val|, capped at 2^23 (every larger f32 is an integer)
F32Trunc(val) ==
    IF val.m = 0 THEN 0
    ELSE IF val.e >= 0 THEN 2 ^ 23
    ELSE IF val.e < -30 THEN 0
    ELSE val.m \div (2 ^ (-val.e))

\* val >= 100_f32, val < 10_f32, val > 0_f32: false for NaN
F32Ge100(val) == ~val.nan /\ ~val.neg /\ F32Trunc(val) >= 100
F32Lt10(val) == ~val.nan /\ ((val.neg /\ val.m > 0) \/ F32Trunc(val) < 10)
F32Gt0(val) == ~val.nan /\ ~val.neg /\ val.m > 0

\* val as u8: saturating, NaN to 0
AsU8(val) ==
    IF val.nan \/ val.neg THEN 0
    ELSE IF F32Trunc(val) > 255 THEN 255 ELSE F32Trunc(val)


---------------------------------------------------------------------------
(* SevenSegment::set_percent *)

\* for seg in 0..8 { self.device.pixel(base, seg, 0x00)?; }, from segment seg on
RECURSIVE blank_digit(_, _, _, _)
blank_digit(d, c, base, seg) ==
    IF seg = 8 THEN Ret(c, Ok)
    ELSE LET r == pixel(d, c, base, seg, 0)
         IN  IF r.res # Ok THEN r ELSE blank_digit(d, r.c, base, seg + 1)

\* three set_digit calls in a row, each ending the sequence when it fails
three_digits(d, c, w1, v1, p1, w2, v2, p2, w3, v3, p3) ==
    LET r1 == set_digit(d, c, w1, v1, p1)
    IN  IF r1.res # Ok THEN r1
        ELSE LET r2 == set_digit(d, r1.c, w2, v2, p2)
             IN  IF r2.res # Ok THEN r2
                 ELSE set_digit(d, r2.c, w3, v3, p3)

\* val >= 100_f32 with the points of the three digits lit
percent_full_points(d, c, base) ==
    three_digits(d, c, base, 1, TRUE, base + 1, 0, TRUE, base + 2, 0, TRUE)

\* val >= 100_f32
percent_full(d, c, base) ==
    three_digits(d, c, base, 1, FALSE, base + 1, 0, FALSE, base + 2, 0, FALSE)

\* val < 10_f32 with the point on the last digit instead of the middle one
percent_low_point_last(d, c, base, val) ==
    LET r == blank_digit(d, c, base, 0)
    IN  IF r.res # Ok THEN r
        ELSE LET r1 == set_digit(d, r.c, base + 1, AsU8(val) % 10, FALSE)
             IN  IF r1.res # Ok THEN r1
                 ELSE set_digit(d, r1.c, base + 2, AsU8(F32Mul10(val)) % 10, TRUE)

\* val < 10_f32 blanking the seven glyph segments only
percent_low_seven(d, c, base, val) ==
    LET r == set_digit_segs(d, c, base, [k \in 1..7 |-> FALSE], 0)
    IN  IF r.res # Ok THEN r
        ELSE LET r1 == set_digit(d, r.c, base + 1, AsU8(val) % 10, TRUE)
             IN  IF r1.res # Ok THEN r1
                 ELSE set_digit(d, r1.c, base + 2, AsU8(F32Mul10(val)) % 10, FALSE)

\* val < 10_f32
percent_low(d, c, base, val) ==
    LET r == blank_digit(d, c, base, 0)
    IN  IF r.res # Ok THEN r
        ELSE IF F32Gt0(val)
        THEN LET r1 == set_digit(d, r.c, base + 1, AsU8(val) % 10, TRUE)
             IN  IF r1.res # Ok THEN r1
                 ELSE set_digit(d, r1.c, base + 2, AsU8(F32Mul10(val)) % 10, FALSE)
        ELSE LET r1 == set_digit(d, r.c, base + 1, 0, TRUE)
             IN  IF r1.res # Ok THEN r1
                 ELSE set_digit(d, r1.c, base + 2, 0, FALSE)

\* the remaining branch with one digit per position
percent_mid_spread(d, c, base, val) ==
    three_digits(d, c, base, AsU8(F32Div10(val)) % 10, FALSE,
                       base + 1, AsU8(val) % 10, TRUE,
                       base + 2, AsU8(F32Mul10(val)) % 10, FALSE)

\* the remaining branch: 10 <= val < 100, and NaN
percent_mid(d, c, base, val) ==
    three_digits(d, c, base, AsU8(F32Div10(val)) % 10, FALSE,
                       base, AsU8(val) % 10, TRUE,
                       base, AsU8(F32Mul10(val)) % 10, FALSE)

\* base = which * 3 is u8 arithmetic: it overflows for which >= 86, and the
\* groups drawn stay below that
set_percent(d, c, which, val) ==
    LET base == which * 3
    IN  IF F32Ge100(val) THEN percent_full(d, c, base)
        ELSE IF F32Lt10(val) THEN percent_low(d, c, base, val)
        ELSE percent_mid(d, c, base, val)

---------------------------------------------------------------------------
(* calls *)

NoArgs == [x |-> 0, y |-> 0, v |-> 0, flag |-> FALSE]

Call(op, args, r) ==
    [op |-> op, args |-> args, fault |-> r.c.fault, rst |-> r.c.rst,
     log |-> r.c.log, res |-> r.res]

\* the call r was made from the register file reg: record it
Record(op, args, r) ==
    /\ reg' = r.c.reg
    /\ hist' = Append(hist, Call(op, args, r))
    /\ UNCHANGED <<dev, reg0>>

InitRegs(f, cfg, gcc) ==
    [a \in Byte |-> IF a = CONFIG_REGISTER THEN cfg
                    ELSE IF a = GCC_REGISTER THEN gcc
                    ELSE (f * a) % 256]

\* the register file after replaying the first k events of log on r
RECURSIVE Replay(_, _, _, _)
Replay(r, log, rst, k) ==
    IF k = 0 THEN r
    ELSE LET p == Replay(r, log, rst, k - 1)
             e == log[k]
         IN  IF e.kind = "write" /\ e.ok THEN DevWrite(p, e.bytes, rst) ELSE p

InitWith(devs, fills, cfgs, gccs) ==
    /\ dev \in devs
    /\ reg0 \in {InitRegs(f, cfg, gcc) : f \in fills, cfg \in cfgs, gcc \in gccs}
    /\ reg = reg0
    /\ hist = <<>>

PixelCall ==
    /\ hist = <<>>
    /\ \E x \in Coords, y \in Coords, b \in Brightness, fault \in Faults(1) :
          Record("pixel", [x |-> x, y |-> y, v |-> b, flag |-> FALSE],
                 pixel(dev, Ctx(reg, dev.address, fault, "keep"), x, y, b))

InitPixel == InitWith(Devices, 0..MaxFill, {0}, {0})
NextPixel == PixelCall
SpecPixel == InitPixel /\ [][NextPixel]_vars

GccVals == {0, 200}

SetupCall ==
    /\ hist = <<>>
    /\ \E fault \in Faults(7), rst \in ResetOutcomes :
          Record("setup", NoArgs, setup(Ctx(reg, dev.address, fault, rst)))

ResetCall ==
    /\ hist = <<>>
    /\ \E fault \in Faults(1), rst \in ResetOutcomes :
          Record("reset", NoArgs, reset(Ctx(reg, dev.address, fault, rst)))

InitSetup == InitWith({SevenSegmentDev}, 0..MaxFill, Byte, GccVals)
NextSetup == SetupCall \/ ResetCall
SpecSetup == InitSetup /\ [][NextSetup]_vars

\* open/short diagnostics, from every config value
CheckOpensCall ==
    /\ hist = <<>>
    /\ \E fault \in Faults(7) :
          Record("check_opens", NoArgs, check_opens(Ctx(reg, dev.address, fault, "keep")))

CheckShortsCall ==
    /\ hist = <<>>
    /\ \E fault \in Faults(7) :
          Record("check_shorts", NoArgs, check_shorts(Ctx(reg, dev.address, fault, "keep")))

InitDiag == InitWith({SevenSegmentDev}, 0..MaxFill, Byte, GccVals)
NextDiag == CheckOpensCall \/ CheckShortsCall
SpecDiag == InitDiag /\ [][NextDiag]_vars

\* chains of config-register operations.  A chain ends at the first call that
\* fails: the driver neither retries nor rolls back, and what follows a
\* failure is the caller's recovery, not the driver's.
AllOk == \A i \in 1..Len(hist) : hist[i].res.tag = "Ok"

ShutdownCall ==
    /\ Len(hist) < MaxCalls
    /\ AllOk
    /\ \E yes \in BOOLEAN, fault \in Faults(2) :
          Record("shutdown", [x |-> 0, y |-> 0, v |-> 0, flag |-> yes],
                 shutdown(Ctx(reg, dev.address, fault, "keep"), yes))

SwEnablementCall ==
    /\ Len(hist) < MaxCalls
    /\ AllOk
    /\ \E setting \in SwSetting, fault \in Faults(2) :
          Record("sw_enablement", [x |-> 0, y |-> 0, v |-> setting, flag |-> FALSE],
                 sw_enablement(Ctx(reg, dev.address, fault, "keep"), setting))

\* config values the chains start from: every value of bits 0-3, with four
\* values of the scan field
ChainConfigs == {lo + 16 * hi : lo \in 0..15, hi \in {0, 3, 8, 15}}

InitConfig == InitWith({SevenSegmentDev}, {0}, ChainConfigs, {0})
NextConfig == ShutdownCall \/ SwEnablementCall
SpecConfig == InitConfig /\ [][NextConfig]_vars

\* the seven-segment display: SevenSegment::configure's device only
SetDigitCall ==
    /\ hist = <<>>
    /\ \E which \in Coords, val \in Byte, point \in BOOLEAN, fault \in Faults(8) :
          Record("set_digit", [x |-> which, y |-> 0, v |-> val, flag |-> point],
                 set_digit(dev, Ctx(reg, dev.address, fault, "keep"), which, val, point))

InitDigit == InitWith({SevenSegmentDev}, {1}, {0}, {0})
NextDigit == SetDigitCall
SpecDigit == InitDigit /\ [][NextDigit]_vars

\* values far above 100.0, in tenths: 255.5, 1000.0, 300000.0
LargeTenths == {2555, 10000, 3000000}

\* percentages on the seven-segment display; the value is t / 10, or NaN
PercentValue(t, nan) == IF nan THEN NaN ELSE F32Tenths(t)

SetPercentCall ==
    /\ hist = <<>>
    /\ \E which \in 0..MaxGroup, t \in (-1..MaxTenths) \cup LargeTenths, nan \in BOOLEAN,
          fault \in Faults(24) :
          /\ nan => t = 0
          /\ Record("set_percent", [x |-> which, y |-> 0, v |-> t, flag |-> nan],
                    set_percent(dev, Ctx(reg, dev.address, fault, "keep"), which,
                                PercentValue(t, nan)))

NextPercent == SetPercentCall
SpecPercent == InitDigit /\ [][NextPercent]_vars

\* fill, and set_scaling in a build with (checks) or without overflow checks
FillCall ==
    /\ hist = <<>>
    /\ \E b \in Brightness, fault \in Faults(1) :
          Record("fill", [x |-> 0, y |-> 0, v |-> b, flag |-> FALSE],
                 fill(Ctx(reg, dev.address, fault, "keep"), b))

SetScalingCall ==
    /\ hist = <<>>
    /\ \E cs \in Byte, scale \in Brightness, checks \in BOOLEAN, fault \in Faults(1) :
          Record("set_scaling", [x |-> cs, y |-> 0, v |-> scale, flag |-> checks],
                 set_scaling(Ctx(reg, dev.address, fault, "keep"), cs, scale, checks))

\* the two operations that write one register of a table
InitScaling == InitWith(Devices, {1}, {0}, {0})
NextScaling == PixelCall \/ SetScalingCall
SpecScaling == InitScaling /\ [][NextScaling]_vars

\* one call of any operation on the seven-segment display
NextAll ==
    /\ hist = <<>>
    /\ \/ PixelCall
       \/ FillCall
       \/ SetScalingCall
       \/ ResetCall
       \/ SetupCall
       \/ ShutdownCall
       \/ SwEnablementCall
       \/ CheckOpensCall
       \/ CheckShortsCall
       \/ SetDigitCall
       \/ SetPercentCall
SpecAll == InitDigit /\ [][NextAll]_vars

\* the register file before and after the i-th call
RECURSIVE RegAfter(_)
RegAfter(i) ==
    IF i = 0 THEN reg0
    ELSE Replay(RegAfter(i - 1), hist[i].log, hist[i].rst, Len(hist[i].log))

RegBefore(i) == RegAfter(i - 1)

---------------------------------------------------------------------------
(* properties of pixel *)

PixelCalls == {i \in 1..Len(hist) : hist[i].op = "pixel"}

\* the arguments of call i are strictly inside the matrix and map into the table
InRange(i) ==
    /\ hist[i].args.x < dev.width
    /\ hist[i].args.y < dev.height
    /\ calc_pixel(hist[i].args.x, hist[i].args.y) < 143

\* the one write a pixel call is to issue
PixelBytes(i) ==
    <<1 + calc_pixel(hist[i].args.x, hist[i].args.y), hist[i].args.v>>

\* C1 as stated: for x < width, y < height and calc_pixel(x, y) < 0x8F, pixel
\* succeeds and its only bus transaction is the write [0x01 + calc_pixel(x, y),
\* brightness].
C1_SucceedsWithOneWrite ==
    \A i \in PixelCalls :
        InRange(i) =>
            /\ hist[i].res = Ok
            /\ hist[i].log = <<Event("write", dev.address, PixelBytes(i), 0, TRUE, <<>>)>>

\* C1 amended: for x < width, y < height and calc_pixel(x, y) < 0x8F, pixel
\* issues exactly one bus transaction, the write [0x01 + calc_pixel(x, y),
\* brightness]; it succeeds when the transport accepts that write and returns
\* the transport's error when it does not.
C1_OneWriteResultFollowsTransport ==
    \A i \in PixelCalls :
        InRange(i) =>
            /\ Len(hist[i].log) = 1
            /\ hist[i].log[1].kind = "write"
            /\ hist[i].log[1].addr = dev.address
            /\ hist[i].log[1].bytes = PixelBytes(i)
            /\ hist[i].res = IF hist[i].log[1].ok THEN Ok ELSE I2cError
            /\ \A a \in Byte :
                 reg[a] = IF hist[i].log[1].ok /\ a = PixelBytes(i)[1]
                          THEN hist[i].args.v ELSE reg0[a]

C1_Witness ==
    \E i \in PixelCalls :
        /\ InRange(i)
        /\ hist[i].res = Ok
        /\ hist[i].args.v = 255
        /\ hist[i].args.y > 0
        /\ reg[PixelBytes(i)[1]] = 255

\* C2 as stated: a pixel call with x = width or y = height fails with
\* InvalidLocation and issues no bus write.
C2_BoundaryRejected ==
    \A i \in PixelCalls :
        (hist[i].args.x = dev.width \/ hist[i].args.y = dev.height) =>
            /\ hist[i].res.tag = "InvalidLocation"
            /\ hist[i].log = <<>>

\* C3: a pixel call that returns InvalidLocation has issued no bus transaction
\* (the chip's registers are untouched), one of x > width, y > height,
\* calc_pixel(x, y) >= 0x8F holds, and the payload is the first of x, y, offset
\* to violate its bound.
C3_InvalidLocationBeforeBus ==
    \A i \in PixelCalls :
        hist[i].res.tag = "InvalidLocation" =>
            LET x == hist[i].args.x
                y == hist[i].args.y
            IN  /\ hist[i].log = <<>>
                /\ reg = reg0
                /\ x > dev.width \/ y > dev.height \/ calc_pixel(x, y) >= 143
                /\ hist[i].res.val = IF x > dev.width THEN x
                                     ELSE IF y > dev.height THEN y
                                     ELSE calc_pixel(x, y)

\* the offset case: both coordinates pass, the computed offset does not
C3_Witness ==
    \E i \in PixelCalls :
        /\ hist[i].res.tag = "InvalidLocation"
        /\ hist[i].args.x <= dev.width
        /\ hist[i].args.y <= dev.height
        /\ hist[i].res.val = calc_pixel(hist[i].args.x, hist[i].args.y)
        /\ hist[i].res.val >= 143

---------------------------------------------------------------------------
(* properties of setup *)

\* the setup calls that ran to the end: every bus transaction succeeded
SetupOk == {i \in 1..Len(hist) : hist[i].op = "setup" /\ hist[i].res = Ok}

\* the registers a successful write event stores into
Targets(e) ==
    IF e.kind = "write" /\ e.ok
    THEN {a \in Byte : a >= e.bytes[1] /\ a - e.bytes[1] + 2 <= Len(e.bytes)}
    ELSE {}

\* C4 as stated: after a fault-free setup every scaling register 0x90..0x9F
\* holds 0xFF, written by one block write addressed to the scaling table, and
\* setup writes no register of the PWM table.
C4_ScalingAtMax ==
    \A i \in SetupOk :
        /\ \A a \in 144..159 : reg[a] = 255
        /\ Cardinality({k \in 1..Len(hist[i].log) :
                           /\ hist[i].log[k].kind = "write"
                           /\ hist[i].log[k].bytes[1] = 144
                           /\ Len(hist[i].log[k].bytes) = 17}) = 1
        /\ \A k \in 1..Len(hist[i].log) :
               Targets(hist[i].log[k]) \cap (1..143) = {}

\* C5: after a fault-free setup, whatever the registers held before, config
\* (0xA0) has bit 0 = 1 and global current control (0xA1) holds 0x40.
C5_AwakeAtFullCurrent ==
    \A i \in SetupOk :
        /\ Bit(reg[160], 0) = 1
        /\ reg[161] = 64

\* a setup that had to change both: the chip started shut down, at another
\* current, and kept its registers over the reset
C5_Witness ==
    \E i \in SetupOk :
        /\ hist[i].rst = "keep"
        /\ Bit(reg0[160], 0) = 0
        /\ reg0[160] > 1
        /\ reg0[161] = 200
        /\ reg[161] = 64
        /\ Bit(reg[160], 0) = 1

\* C6: a fault-free setup issues exactly: write 0xAE to 0xCF; delay 10 ms;
\* read config, write it back with bit 0 cleared; delay 10 ms; write 0x40 to
\* 0xA1; one block write of 0xFF bytes; read config, write it back with bit 0
\* set.  Nothing is on the bus between the reset write and the first delay,
\* and config bit 0 is 0 from the second delay up to the final config write.
C6_SetupOrder ==
    \A i \in SetupOk :
        LET l == hist[i].log
            after(k) == Replay(reg0, l, hist[i].rst, k)
        IN  /\ Len(l) = 9
            /\ l[1].kind = "write" /\ l[1].bytes = <<207, 174>>
            /\ l[2].kind = "delay" /\ l[2].bytes = <<10>>
            /\ l[3].kind = "write_read" /\ l[3].bytes = <<160>> /\ l[3].len = 1
            /\ l[4].kind = "write"
            /\ l[4].bytes = <<160, l[3].data[1] - (l[3].data[1] % 2)>>
            /\ l[5].kind = "delay" /\ l[5].bytes = <<10>>
            /\ l[6].kind = "write" /\ l[6].bytes = <<161, 64>>
            /\ l[7].kind = "write" /\ Len(l[7].bytes) > 2
            /\ \A j \in 2..Len(l[7].bytes) : l[7].bytes[j] = 255
            /\ l[8].kind = "write_read" /\ l[8].bytes = <<160>> /\ l[8].len = 1
            /\ l[9].kind = "write"
            /\ l[9].bytes = <<160, l[8].data[1] - (l[8].data[1] % 2) + 1>>
            /\ \A k \in 4..8 : Bit(after(k)[160], 0) = 0
            /\ after(9) = reg

\* a setup of a chip that was awake with other config bits set
C6_Witness ==
    \E i \in SetupOk :
        /\ hist[i].rst = "keep"
        /\ reg0[160] = 255
        /\ Len(hist[i].log) = 9
        /\ hist[i].log[4].bytes = <<160, 254>>
        /\ hist[i].log[9].bytes = <<160, 255>>

---------------------------------------------------------------------------
(* properties of shutdown and the diagnostics *)

\* shutdown(true) immediately followed by shutdown(false), both succeeding
ShutdownPairs ==
    {i \in 1..(Len(hist) - 1) :
        /\ hist[i].op = "shutdown" /\ hist[i].args.flag /\ hist[i].res = Ok
        /\ hist[i + 1].op = "shutdown" /\ ~hist[i + 1].args.flag
        /\ hist[i + 1].res = Ok}

\* C7 as stated: shutdown(true) then shutdown(false) leaves config bit 0 equal
\* to what it was before shutdown(true), for every earlier config value.
C7_Bit0Restored ==
    \A i \in ShutdownPairs :
        Bit(RegAfter(i + 1)[160], 0) = Bit(RegBefore(i)[160], 0)

\* C7 amended: shutdown(true) then shutdown(false) leaves config bit 0 = 1
\* (not shut down) and bits 1-7 as they were before shutdown(true); bit 0
\* equals its earlier value exactly when the chip was not shut down before.
C7_AwakeAfterPair ==
    \A i \in ShutdownPairs :
        LET before == RegBefore(i)[160]
            between == RegAfter(i)[160]
            after == RegAfter(i + 1)[160]
        IN  /\ Bit(between, 0) = 0
            /\ Bit(after, 0) = 1
            /\ after \div 2 = before \div 2
            /\ (Bit(after, 0) = Bit(before, 0)) <=> (Bit(before, 0) = 1)
            /\ \A a \in Byte \ {160} : RegAfter(i + 1)[a] = RegBefore(i)[a]

\* the pair run on a chip that was awake with other config bits set
C7_Witness ==
    \E i \in ShutdownPairs :
        /\ RegBefore(i)[160] = 55
        /\ RegAfter(i)[160] = 54
        /\ i + 1 = Len(hist)
        /\ reg[160] = 55

\* the shutdown and sw_enablement calls that ran to the end
ConfigCalls ==
    {i \in 1..Len(hist) :
        hist[i].op \in {"shutdown", "sw_enablement"} /\ hist[i].res = Ok}

\* call i run on the registers r by a transport without faults
Rerun(i, r) ==
    LET c == Ctx(r, dev.address, 0, "keep")
    IN  IF hist[i].op = "shutdown" THEN shutdown(c, hist[i].args.flag).c.reg
        ELSE sw_enablement(c, hist[i].args.v).c.reg

\* C18: shutdown(b) changes bit 0 of config only and sw_enablement(s) changes
\* bits 4-7 only; on a fault-free device the two commute and each is
\* idempotent, for every starting config, b and s.
C18_ConfigFieldsIndependent ==
    /\ \A i \in ConfigCalls :
         LET rb == RegBefore(i)
             ra == RegAfter(i)
             before == rb[160]
             after == ra[160]
         IN  /\ [ra EXCEPT ![160] = before] = rb
             /\ hist[i].op = "shutdown" =>
                  /\ after \div 2 = before \div 2
                  /\ Bit(after, 0) = IF hist[i].args.flag THEN 0 ELSE 1
             /\ hist[i].op = "sw_enablement" =>
                  /\ after % 16 = before % 16
                  /\ after \div 16 = hist[i].args.v
    /\ \A i \in ConfigCalls :
         (i + 1) \in ConfigCalls =>
            /\ hist[i].op # hist[i + 1].op =>
                 RegAfter(i + 1) = Rerun(i, Rerun(i + 1, RegBefore(i)))
            /\ (hist[i].op = hist[i + 1].op /\ hist[i].args = hist[i + 1].args) =>
                 RegAfter(i + 1) = RegAfter(i)

\* sw_enablement(3) then shutdown(true) from config 0xFF, and
\* sw_enablement(8) repeated from config 0x3F
C18_Witness ==
    \/ /\ Len(hist) = 2
       /\ hist[1].op = "sw_enablement" /\ hist[1].args.v = 3 /\ hist[1].res = Ok
       /\ hist[2].op = "shutdown" /\ hist[2].args.flag /\ hist[2].res = Ok
       /\ reg0[160] = 255
       /\ reg[160] = 62
    \/ /\ Len(hist) = 2
       /\ hist[1].op = "sw_enablement" /\ hist[1].args.v = 8 /\ hist[1].res = Ok
       /\ hist[2] = hist[1]
       /\ reg0[160] = 63
       /\ reg[160] = 143

\* the check_opens calls that ran to the end
CheckOpensOk == {i \in 1..Len(hist) : hist[i].op = "check_opens" /\ hist[i].res.tag = "Ok"}

\* C8 as stated: a fault-free check_opens leaves config (0xA0) and global
\* current control (0xA1) holding the bytes they held before the call.
C8_ConfigAndGccRestored ==
    \A i \in CheckOpensOk :
        /\ reg[160] = reg0[160]
        /\ reg[161] = reg0[161]

\* C8 amended: a fault-free check_opens leaves global current control (0xA1)
\* holding the byte it held before the call, and config (0xA0) holding its
\* earlier byte with the open/short-detect field (bits 1-2) cleared; config
\* is the earlier byte exactly when that field was 00 before the call.
C8_GccRestoredConfigMasked ==
    \A i \in CheckOpensOk :
        LET osde == (reg0[160] \div 2) % 4
        IN  /\ reg[161] = reg0[161]
            /\ reg[160] = reg0[160] - 2 * osde
            /\ (reg[160] = reg0[160]) <=> (osde = 0)
            /\ \A a \in Byte \ {160} : reg[a] = reg0[a]

\* a check_opens that found the detect field set and another current
C8_Witness ==
    \E i \in CheckOpensOk :
        /\ reg0[160] = 255
        /\ reg0[161] = 200
        /\ reg[160] = 249
        /\ reg[161] = 200
        /\ Len(hist[i].log) = 7

\* the fault-free check_opens and check_shorts calls
DiagCalls ==
    {i \in 1..Len(hist) :
        /\ hist[i].op \in {"check_opens", "check_shorts"}
        /\ hist[i].fault = 0}

\* the open/short-detect field, bits 1-2, of a config byte
OsdeOf(config) == (config \div 2) % 4

\* C17: a fault-free check_opens / check_shorts issues, in this order: read
\* config, read GCC, write GCC = 0x01, write config with the detect field set
\* to 01 (opens) or 10 (shorts), write-then-read 18 bytes from 0xB3, write
\* config with the detect field 00, write GCC = the byte saved.  The 18 bytes
\* are read while GCC is 0x01 and the detect field is the mode's, they are
\* returned as read, and the detect field is 00 after the call.
C17_DiagnosticSequence ==
    \A i \in DiagCalls :
        LET log == hist[i].log
            mode == IF hist[i].op = "check_opens" THEN 1 ELSE 2
            old_config == RegBefore(i)[160]
            old_gcc == RegBefore(i)[161]
            masked == old_config - 2 * OsdeOf(old_config)
            during == Replay(RegBefore(i), log, hist[i].rst, 4)
            W(bytes) == Event("write", dev.address, bytes, 0, TRUE, <<>>)
        IN  /\ Len(log) = 7
            /\ log[1] = Event("write_read", dev.address, <<160>>, 1, TRUE, <<old_config>>)
            /\ log[2] = Event("write_read", dev.address, <<161>>, 1, TRUE, <<old_gcc>>)
            /\ log[3] = W(<<161, 1>>)
            /\ log[4] = W(<<160, masked + 2 * mode>>)
            /\ log[5].kind = "write_read"
            /\ log[5].bytes = <<179>>
            /\ log[5].len = 18
            /\ log[5].ok
            /\ log[6] = W(<<160, masked>>)
            /\ log[7] = W(<<161, old_gcc>>)
            /\ during[161] = 1
            /\ OsdeOf(during[160]) = mode
            /\ log[5].data = [k \in 1..18 |-> during[178 + k]]
            /\ hist[i].res = OkBuf(log[5].data)
            /\ OsdeOf(RegAfter(i)[160]) = 0

\* check_shorts on a chip whose detect field was 11 and whose current was 200
C17_Witness ==
    \E i \in DiagCalls :
        /\ hist[i].op = "check_shorts"
        /\ reg0[160] = 255
        /\ reg0[161] = 200
        /\ hist[i].log[4].bytes = <<160, 253>>
        /\ hist[i].log[7].bytes = <<161, 200>>
        /\ Len(hist[i].res.buf) = 18
        /\ reg[160] = 249

---------------------------------------------------------------------------
(* properties of set_digit *)

SetDigitCalls == {i \in 1..Len(hist) : hist[i].op = "set_digit"}

\* C9: set_digit(pos, v, point) issues the same bus writes and returns the same
\* result as set_digit(pos, v mod 36, point) does from the same registers under
\* the same transport, for every pos, point and v in 0..255; set_digit(pos, 36,
\* false) is set_digit(pos, 0, false).
C9_ValueModulo36 ==
    \A i \in SetDigitCalls :
        LET a == hist[i].args
            start == Ctx(RegBefore(i), dev.address, hist[i].fault, hist[i].rst)
            reduced == set_digit(dev, start, a.x, a.v % 36, a.flag)
            zero == set_digit(dev, start, a.x, 0, FALSE)
        IN  /\ hist[i].log = reduced.c.log
            /\ hist[i].res = reduced.res
            /\ RegAfter(i) = reduced.c.reg
            /\ (a.v = 36 /\ ~a.flag) =>
                   /\ hist[i].log = zero.c.log
                   /\ hist[i].res = zero.res

\* a value past the table that was drawn: 37 shows as 1 (B and C lit)
C9_Witness ==
    \E i \in SetDigitCalls :
        /\ hist[i].args.v = 37
        /\ hist[i].args.x = 3
        /\ hist[i].res = Ok
        /\ Len(hist[i].log) = 8
        /\ hist[i].log[1].bytes = <<4, 0>>
        /\ hist[i].log[2].bytes = <<20, 255>>

\* the segments lit in the usual seven-segment digits, A = 0 .. G = 6
StandardGlyph ==
    <<{0, 1, 2, 3, 4, 5},       \* 0
      {1, 2},                   \* 1
      {0, 1, 3, 4, 6},          \* 2
      {0, 1, 2, 3, 6},          \* 3
      {1, 2, 5, 6},             \* 4
      {0, 2, 3, 5, 6},          \* 5
      {0, 2, 3, 4, 5, 6},       \* 6
      {0, 1, 2},                \* 7
      {0, 1, 2, 3, 4, 5, 6},    \* 8
      {0, 1, 2, 3, 5, 6}>>      \* 9

\* the events of a fault-free set_digit(pos, v, true) drawing the segments lit
DigitWrites(pos, lit) ==
    [k \in 1..8 |->
        Event("write", dev.address,
              <<1 + pos + 16 * (k - 1),
                IF k = 8 \/ (k - 1) \in lit THEN 255 ELSE 0>>,
              0, TRUE, <<>>)]

\* the fault-free calls set_digit(pos, v, true) with pos in 0..8 and v in 0..9
DecimalDigitCalls ==
    {i \in SetDigitCalls :
        /\ hist[i].args.x \in 0..8
        /\ hist[i].args.v \in 0..9
        /\ hist[i].args.flag
        /\ hist[i].fault = 0}

\* C10 as stated: for pos in 0..8 and v in 0..9 a fault-free set_digit(pos, v,
\* true) issues exactly 8 pixel writes, segments 0..6 then 7, to registers
\* 0x01 + pos + 16 * segment, 0xFF where the standard glyph of v has the
\* segment on and 0x00 elsewhere, and 0xFF for the decimal point.
C10_StandardGlyphs ==
    \A i \in DecimalDigitCalls :
        /\ hist[i].res = Ok
        /\ hist[i].log = DigitWrites(hist[i].args.x, StandardGlyph[hist[i].args.v + 1])

\* C10 amended: the same, with the glyph of 9 drawn without its bottom
\* segment: A, B, C, F, G on and D, E off; 0..8 are the standard glyphs.
C10_GlyphsNineWithoutTail ==
    \A i \in DecimalDigitCalls :
        LET v == hist[i].args.v
            lit == IF v = 9 THEN {0, 1, 2, 5, 6} ELSE StandardGlyph[v + 1]
        IN  /\ hist[i].res = Ok
            /\ hist[i].log = DigitWrites(hist[i].args.x, lit)
            /\ \A a \in Byte :
                 reg[a] = IF \E k \in 1..8 : hist[i].log[k].bytes[1] = a
                          THEN (IF (a - 1) \div 16 = 7 \/ (a - 1) \div 16 \in lit
                                THEN 255 ELSE 0)
                          ELSE reg0[a]

\* digit 2 with its point drawn at the last position of the display
C10_Witness ==
    \E i \in DecimalDigitCalls :
        /\ hist[i].args.x = 8
        /\ hist[i].args.v = 2
        /\ hist[i].res = Ok
        /\ hist[i].log[3].bytes = <<41, 0>>
        /\ hist[i].log[8].bytes = <<121, 255>>
        /\ reg[121] = 255

---------------------------------------------------------------------------
(* properties of set_percent *)

PercentCalls == {i \in 1..Len(hist) : hist[i].op = "set_percent"}

\* the fault-free calls set_percent(g, t / 10) with g in 0..2 and lo <= t <= hi
PercentOk(lo, hi) ==
    {i \in PercentCalls :
        /\ hist[i].args.x \in 0..2
        /\ ~hist[i].args.flag
        /\ hist[i].args.v >= lo
        /\ hist[i].args.v <= hi
        /\ hist[i].fault = 0}

\* the PWM register of a segment of a digit position
SegReg(pos, seg) == 1 + pos + 16 * seg

\* the segments set_digit lights for the digit v
GlyphOf(v) == {seg \in 0..6 : lookup[v + 1][seg + 1]}

\* in the registers r, position pos has exactly the segments lit on
SegmentsShow(r, pos, lit) ==
    \A seg \in 0..6 : r[SegReg(pos, seg)] = IF seg \in lit THEN 255 ELSE 0

\* call i wrote the byte b to the decimal point of position pos
PointWritten(i, pos, b) ==
    \E k \in 1..Len(hist[i].log) :
        /\ hist[i].log[k].ok
        /\ hist[i].log[k].bytes = <<SegReg(pos, 7), b>>

\* the fault-free calls set_percent(g, value) with g in 0..2 and value >= 100
PercentFull ==
    {i \in PercentCalls :
        /\ hist[i].args.x \in 0..2
        /\ ~hist[i].args.flag
        /\ hist[i].args.v >= 1000
        /\ hist[i].fault = 0}

\* C11: for g in 0..2 and value >= 100 a fault-free set_percent(g, value)
\* leaves positions 3g, 3g+1, 3g+2 showing the glyphs 1, 0, 0, and the decimal
\* point (segment 7) of each of the three is written 0x00.
C11_FullShowsOneZeroZero ==
    \A i \in PercentFull :
        LET base == 3 * hist[i].args.x
        IN  /\ hist[i].res = Ok
            /\ SegmentsShow(RegAfter(i), base, StandardGlyph[2])
            /\ SegmentsShow(RegAfter(i), base + 1, StandardGlyph[1])
            /\ SegmentsShow(RegAfter(i), base + 2, StandardGlyph[1])
            /\ \A k \in 0..2 :
                 /\ PointWritten(i, base + k, 0)
                 /\ RegAfter(i)[SegReg(base + k, 7)] = 0

\* 255.5 drawn in the last group: positions 6, 7, 8
C11_Witness ==
    \E i \in PercentFull :
        /\ hist[i].args.v = 2555
        /\ hist[i].args.x = 2
        /\ hist[i].res = Ok
        /\ Len(hist[i].log) = 24
        /\ reg[SegReg(6, 1)] = 255
        /\ reg[SegReg(6, 0)] = 0
        /\ reg[SegReg(8, 7)] = 0

\* C12: for g in 0..2 and 0 <= value < 10 with one decimal place a fault-free
\* set_percent(g, value) leaves position 3g with its seven segments off,
\* position 3g+1 showing floor(value) with its decimal point on, and position
\* 3g+2 showing floor(value * 10) mod 10 with its decimal point off.
C12_LowBlankUnitsTenths ==
    \A i \in PercentOk(0, 99) :
        LET base == 3 * hist[i].args.x
            t == hist[i].args.v
        IN  /\ hist[i].res = Ok
            /\ SegmentsShow(RegAfter(i), base, {})
            /\ SegmentsShow(RegAfter(i), base + 1, GlyphOf(t \div 10))
            /\ RegAfter(i)[SegReg(base + 1, 7)] = 255
            /\ SegmentsShow(RegAfter(i), base + 2, GlyphOf(t % 10))
            /\ RegAfter(i)[SegReg(base + 2, 7)] = 0

\* 5.7 drawn in group 1: blank, '5.', '7'
C12_Witness ==
    \E i \in PercentOk(57, 57) :
        /\ hist[i].args.x = 1
        /\ hist[i].res = Ok
        /\ SegmentsShow(reg, 3, {})
        /\ SegmentsShow(reg, 4, StandardGlyph[6])
        /\ reg[SegReg(4, 7)] = 255
        /\ SegmentsShow(reg, 5, StandardGlyph[8])
        /\ reg[SegReg(5, 7)] = 0

\* C13 as stated: in the value < 10 branch the blanking of position 3g writes
\* segments 0..6 only; the decimal point (segment 7) of position 3g is not
\* written and keeps the value it had before the call.
C13_PointOfBlankedDigitKept ==
    \A i \in PercentOk(0, 99) :
        LET point == SegReg(3 * hist[i].args.x, 7)
        IN  /\ \A k \in 1..Len(hist[i].log) : hist[i].log[k].bytes[1] # point
            /\ RegAfter(i)[point] = RegBefore(i)[point]

\* C13 amended: in the value < 10 branch the blanking of position 3g writes
\* 0x00 to its eight segments 0..7 in order, the decimal point included, which
\* is off after the call; position 3g is not written again.
C13_PointOfBlankedDigitCleared ==
    \A i \in PercentOk(0, 99) :
        LET base == 3 * hist[i].args.x
        IN  /\ Len(hist[i].log) = 24
            /\ \A k \in 1..8 :
                 hist[i].log[k] =
                     Event("write", dev.address, <<SegReg(base, k - 1), 0>>,
                           0, TRUE, <<>>)
            /\ \A k \in 9..24 :
                 \A seg \in 0..7 : hist[i].log[k].bytes[1] # SegReg(base, seg)
            /\ RegBefore(i)[SegReg(base, 7)] # 0
            /\ RegAfter(i)[SegReg(base, 7)] = 0

\* 0.0 in group 0: the point of position 0, register 0x71, goes from 0x71 to 0
C13_Witness ==
    \E i \in PercentOk(0, 0) :
        /\ hist[i].args.x = 0
        /\ hist[i].res = Ok
        /\ reg0[113] = 113
        /\ hist[i].log[8].bytes = <<113, 0>>
        /\ reg[113] = 0

\* C14 as stated: for 10 <= value < 100 with one decimal place the digit that
\* a fault-free set_percent(g, value) writes last, with the decimal point off,
\* and that stays on position 3g, is floor(value * 10) mod 10.
C14_TenthsDigitRetained ==
    \A i \in PercentOk(100, 999) :
        LET base == 3 * hist[i].args.x
        IN  /\ hist[i].res = Ok
            /\ SegmentsShow(RegAfter(i), base, GlyphOf(hist[i].args.v % 10))
            /\ RegAfter(i)[SegReg(base, 7)] = 0

\* C16: for g in 0..2 and 10 <= value < 100 a fault-free set_percent(g, value)
\* renders three digits in a row at position 3g: the tens digit with the point
\* off, the units digit with the point on, a third digit with the point off.
\* It writes no PWM register of positions 3g+1 and 3g+2, and position 3g keeps
\* the third rendering only.
C16_MidAllAtFirstPosition ==
    \A i \in PercentOk(100, 999) :
        LET base == 3 * hist[i].args.x
            t == hist[i].args.v
            log == hist[i].log
        IN  /\ hist[i].res = Ok
            /\ Len(log) = 24
            /\ \A k \in 1..24 :
                 /\ log[k].kind = "write"
                 /\ Len(log[k].bytes) = 2
                 /\ log[k].bytes[1] = SegReg(base, (k - 1) % 8)
            /\ \A seg \in 0..6 :
                 /\ log[1 + seg].bytes[2] =
                        IF seg \in GlyphOf(t \div 100) THEN 255 ELSE 0
                 /\ log[9 + seg].bytes[2] =
                        IF seg \in GlyphOf((t \div 10) % 10) THEN 255 ELSE 0
            /\ log[8].bytes[2] = 0
            /\ log[16].bytes[2] = 255
            /\ log[24].bytes[2] = 0
            /\ \A seg \in 0..7 :
                 /\ RegAfter(i)[SegReg(base, seg)] = log[17 + seg].bytes[2]
                 /\ RegAfter(i)[SegReg(base + 1, seg)] = RegBefore(i)[SegReg(base + 1, seg)]
                 /\ RegAfter(i)[SegReg(base + 2, seg)] = RegBefore(i)[SegReg(base + 2, seg)]

\* 12.3 in group 1: '1', '2.' and '3' all land on position 3; 4 and 5 untouched
C16_Witness ==
    \E i \in PercentOk(123, 123) :
        /\ hist[i].args.x = 1
        /\ hist[i].res = Ok
        /\ hist[i].log[1].bytes = <<4, 0>>
        /\ hist[i].log[9].bytes = <<4, 255>>
        /\ hist[i].log[16].bytes = <<116, 255>>
        /\ hist[i].log[24].bytes = <<116, 0>>
        /\ SegmentsShow(reg, 3, StandardGlyph[4])
        /\ reg[SegReg(4, 0)] = reg0[SegReg(4, 0)]
        /\ reg[SegReg(5, 7)] = reg0[SegReg(5, 7)]

---------------------------------------------------------------------------
(* properties of every operation *)

\* the transactions of call i the transport failed
Failed(i) == {k \in 1..Len(hist[i].log) : ~hist[i].log[k].ok}

\* C15: in every operation, once a bus transaction fails the operation issues
\* no further bus transaction and no delay, does not retry or roll back, and
\* returns the transport's error; the registers written before the failure
\* stay written and those not yet written or restored stay as they were.
C15_FailureEndsTheCall ==
    \A i \in 1..Len(hist) :
        LET log == hist[i].log
        IN  /\ Failed(i) # {} =>
                 /\ Failed(i) = {Len(log)}
                 /\ hist[i].res = I2cError
                 /\ Cardinality({k \in 1..Len(log) : log[k].kind # "delay"})
                        = hist[i].fault
            /\ hist[i].res = I2cError => Failed(i) # {}
            /\ i = Len(hist) => reg = Replay(RegBefore(i), log, hist[i].rst, Len(log))

\* check_opens whose diagnostic read fails: the current stays at 0x01 and the
\* detect field at 01, nothing is restored
C15_Witness ==
    /\ Len(hist) = 1
    /\ hist[1].op = "check_opens"
    /\ hist[1].fault = 5
    /\ hist[1].res = I2cError
    /\ Len(hist[1].log) = 5
    /\ reg0[161] = 0
    /\ reg[161] = 1
    /\ OsdeOf(reg0[160]) = 0
    /\ OsdeOf(reg[160]) = 1

\* C19 as stated: on the seven-segment display a set_digit or set_percent
\* call that returns InvalidLocation has performed no bus write.
C19_InvalidLocationWithoutWrite ==
    \A i \in 1..Len(hist) :
        (/\ hist[i].op \in {"set_digit", "set_percent"}
         /\ hist[i].res.tag = "InvalidLocation") =>
            /\ \A k \in 1..Len(hist[i].log) : hist[i].log[k].kind # "write"
            /\ RegAfter(i) = RegBefore(i)

---------------------------------------------------------------------------
(* properties of pixel and set_scaling *)

\* the registers call i stored into
Written(i) == UNION {Targets(hist[i].log[k]) : k \in 1..Len(hist[i].log)}

\* C20 as stated: every bus write of pixel targets a register in 0x01..0x8F
\* and every bus write of set_scaling one in 0x90..0x9F, for every argument
\* the call accepts without error, channels above 15 included; neither
\* changes config (0xA0) or another control register.
C20_WritesStayInTheirTable ==
    \A i \in 1..Len(hist) :
        /\ hist[i].op = "pixel" =>
             /\ Written(i) \subseteq 1..143
             /\ \A a \in 160..255 : RegAfter(i)[a] = RegBefore(i)[a]
        /\ (hist[i].op = "set_scaling" /\ hist[i].res = Ok) =>
             /\ Written(i) \subseteq 144..159
             /\ \A a \in 160..255 : RegAfter(i)[a] = RegBefore(i)[a]

====
